---------------------------- MODULE Spec2Model ----------------------------
(***************************************************************************)
(* FinanceTracker (src/tracker.py): the category table and its JSON store, *)
(* the numeric cleaning of the VALOR column, the DEBIT/CREDIT labelling,   *)
(* keyword categorisation and the debit/credit split of load_transactions. *)
(*                                                                         *)
(* Text is a sequence of one-character strings, so that replace, strip,    *)
(* lower and float() act on characters as the Python code does.  A Python  *)
(* float is a record [t, m, e] standing for m / 10^e, kept normalised (m   *)
(* is no multiple of 10 unless e = 0), so equal numbers are equal records. *)
(***************************************************************************)
EXTENDS Integers, Sequences, FiniteSets, TLC

VARIABLES
    categories,     \* self.categories: the ordered table, a sequence of [name, keywords]
    category_file,  \* categories.json on disk: [status, table]
    df,             \* self.df
    debits_df,      \* self.debits_df
    credits_df,     \* self.credits_df
    df_numeric,     \* the df_numeric copy of the last load that reached line 170
    op,             \* the method that ran last
    arg,            \* its input, and what the file system gave it
    ret,            \* what it returned
    errors,         \* what it reported through logger.error / st.error
    has_locale,     \* whether the host has the es_CO.UTF-8 locale
    initialized,    \* whether initialize_categories has run on this tracker
    value,          \* the argument of a direct clean_numeric_value call
    parsed,         \* its result
    pc,             \* where a run of main() stands (src/main.py)
    temp_file,      \* main's temp_file: None, or the name of the temporary file
    exists,         \* whether that temporary file is on disk
    removals,       \* how each os.remove(temp_file) of the run ended, in order
    pending         \* the exception main's finally block will let through, or None

main_vars == <<pc, temp_file, exists, removals, pending>>

tracker_vars == <<categories, category_file, df, debits_df, credits_df, df_numeric,
                  op, arg, ret, has_locale, initialized, value, parsed>>

vars == <<categories, category_file, df, debits_df, credits_df, df_numeric,
          op, arg, ret, errors, has_locale, initialized, value, parsed,
          pc, temp_file, exists, removals, pending>>

(***************************************************************************)
(* Bounds of the model.                                                    *)
(***************************************************************************)
MaxRows == 2
MaxLen == 3

(***************************************************************************)
(* Python values.                                                          *)
(***************************************************************************)
None == [t |-> "None"]
NaN == [t |-> "nan"]

\* pd.isna / pd.notnull
IsNull(x) == x \in {None, NaN}

RECURSIVE Normalize(_, _)
Normalize(m, e) ==
    IF e > 0 /\ m % 10 = 0 THEN Normalize(m \div 10, e - 1)
    ELSE [t |-> "float", m |-> m, e |-> e]

\* the number m / 10^e as a Python float
Num(m, e) == Normalize(m, e)

\* x < 0 on a float (every comparison with nan is False)
IsNegative(x) == x.t = "float" /\ x.m < 0

(***************************************************************************)
(* Text.                                                                   *)
(***************************************************************************)
Digits == <<"0", "1", "2", "3", "4", "5", "6", "7", "8", "9">>
UpperCase == <<"A", "B", "C", "D", "E", "F", "G", "H", "I", "J", "K", "L", "M",
               "N", "O", "P", "Q", "R", "S", "T", "U", "V", "W", "X", "Y", "Z">>
LowerCase == <<"a", "b", "c", "d", "e", "f", "g", "h", "i", "j", "k", "l", "m",
               "n", "o", "p", "q", "r", "s", "t", "u", "v", "w", "x", "y", "z">>

Range(s) == {s[i] : i \in DOMAIN s}
IsDigit(c) == c \in Range(Digits)
DigitVal(c) == (CHOOSE i \in DOMAIN Digits : Digits[i] = c) - 1

\* str.lower
LowerChar(c) ==
    IF c \in Range(UpperCase)
    THEN LowerCase[CHOOSE i \in DOMAIN UpperCase : UpperCase[i] = c]
    ELSE c
Lower(s) == [i \in DOMAIN s |-> LowerChar(s[i])]

\* str.strip: the whitespace of the model's alphabet is the blank
RECURSIVE LStrip(_)
LStrip(s) == IF s # <<>> /\ Head(s) = " " THEN LStrip(Tail(s)) ELSE s
RECURSIVE RStrip(_)
RStrip(s) ==
    IF s # <<>> /\ s[Len(s)] = " " THEN RStrip(SubSeq(s, 1, Len(s) - 1)) ELSE s
Strip(s) == RStrip(LStrip(s))

\* str.replace(c, r) for a one-character c
RECURSIVE Replace(_, _, _)
Replace(s, c, r) ==
    IF s = <<>> THEN <<>>
    ELSE (IF Head(s) = c THEN r ELSE <<Head(s)>>) \o Replace(Tail(s), c, r)

\* c in s
Contains(s, c) == \E i \in DOMAIN s : s[i] = c

RECURSIVE NatToText(_)
NatToText(n) ==
    IF n < 10 THEN <<Digits[n + 1]>>
    ELSE NatToText(n \div 10) \o <<Digits[(n % 10) + 1]>>

RECURSIVE TextToNat(_)
TextToNat(s) ==
    IF s = <<>> THEN 0
    ELSE 10 * TextToNat(SubSeq(s, 1, Len(s) - 1)) + DigitVal(s[Len(s)])

RECURSIVE ZeroPad(_, _)
ZeroPad(s, n) == IF Len(s) >= n THEN s ELSE ZeroPad(<<"0">> \o s, n)

\* str(int)
IntRepr(v) == IF v < 0 THEN <<"-">> \o NatToText(-v) ELSE NatToText(v)

\* str(float): repr of a float of the magnitudes a statement holds
FloatRepr(x) ==
    LET mag == IF x.m < 0 THEN -x.m ELSE x.m
        ds == ZeroPad(NatToText(mag), x.e + 1)
        whole == SubSeq(ds, 1, Len(ds) - x.e)
        frac == IF x.e = 0 THEN <<"0">> ELSE SubSeq(ds, Len(ds) - x.e + 1, Len(ds))
    IN (IF x.m < 0 THEN <<"-">> ELSE <<>>) \o whole \o <<".">> \o frac

RECURSIVE Pow10(_)
Pow10(e) == IF e = 0 THEN 1 ELSE 10 * Pow10(e - 1)

\* |x| in hundredths, rounded half to even as the 'f' format rounds
Hundredths(x) ==
    LET mag == IF x.m < 0 THEN -x.m ELSE x.m
        unit == Pow10(IF x.e > 2 THEN x.e - 2 ELSE 0)
        q == mag \div unit
        r == mag % unit
    IN IF x.e <= 2 THEN mag * Pow10(2 - x.e)
       ELSE IF 2 * r > unit \/ (2 * r = unit /\ q % 2 = 1) THEN q + 1 ELSE q

\* digits grouped in threes from the right
RECURSIVE Grouped(_, _)
Grouped(ds, sep) ==
    IF Len(ds) <= 3 THEN ds
    ELSE Grouped(SubSeq(ds, 1, Len(ds) - 3), sep) \o <<sep>>
             \o SubSeq(ds, Len(ds) - 2, Len(ds))

Money(x, thousands, point) ==
    LET h == Hundredths(x)
    IN Grouped(NatToText(h \div 100), thousands) \o <<point>>
           \o ZeroPad(NatToText(h % 100), 2)

\* f"{x:,.2f}"
Comma2f(x) == (IF x.m < 0 THEN <<"-">> ELSE <<>>) \o Money(x, ",", ".")

\* locale.currency(x, grouping=True) under es_CO.UTF-8: the sign, the
\* symbol, a blank, and the amount with '.' for thousands and ',' for decimals
Currency(x) ==
    (IF x.m < 0 THEN <<"-">> ELSE <<>>) \o <<"$", " ">> \o Money(x, ".", ",")

(***************************************************************************)
(* float(text): ValueError stands for the exception that                   *)
(* clean_numeric_value catches.  The grammar is Python's, on the characters of the model's     *)
(* alphabet: blanks around, a sign, digits with at most one point and at   *)
(* least one digit, or the text nan.                                       *)
(***************************************************************************)
ValueError == [t |-> "ValueError"]

PyFloat(s) ==
    LET t == Strip(s)
        signed == t # <<>> /\ Head(t) \in {"-", "+"}
        body == IF signed THEN Tail(t) ELSE t
        points == {i \in DOMAIN body : body[i] = "."}
        digits == SelectSeq(body, IsDigit)
        wellformed == /\ \A i \in DOMAIN body : IsDigit(body[i]) \/ body[i] = "."
                      /\ Cardinality(points) <= 1
                      /\ digits # <<>>
        e == IF points = {} THEN 0 ELSE Len(body) - (CHOOSE i \in points : TRUE)
        mag == TextToNat(digits)
    IN IF Lower(body) = <<"n", "a", "n">> THEN NaN
       ELSE IF ~wellformed THEN ValueError
       ELSE Num(IF signed /\ Head(t) = "-" THEN -mag ELSE mag, e)

(***************************************************************************)
(* Cells of the frame pd.read_excel returns: text, an int, a float, or the *)
(* float nan of an empty cell.                                             *)
(***************************************************************************)
Str(s) == [t |-> "str", s |-> s]
Int64(v) == [t |-> "int", v |-> v]

\* float(value) of a number
ToFloat(c) == IF c.t = "int" THEN Num(c.v, 0) ELSE c

\* clean_numeric_value, with '.' and no ',' read as a decimal point
clean_numeric_value_PointIsDecimal(v) ==
    IF IsNull(v) THEN None
    ELSE IF v.t \in {"int", "float"} THEN ToFloat(v)
    ELSE IF v.t = "str" THEN
        LET stripped == Strip(Replace(v.s, "$", <<>>))
            cleaned ==
                IF Contains(stripped, ".") /\ ~Contains(stripped, ",")
                THEN stripped
                ELSE IF Contains(stripped, ".") /\ Contains(stripped, ",")
                THEN Replace(Replace(stripped, ".", <<>>), ",", <<".">>)
                ELSE IF Contains(stripped, ",")
                THEN Replace(stripped, ",", <<".">>)
                ELSE stripped
            r == PyFloat(cleaned)
        IN IF r = ValueError THEN None ELSE r
    ELSE None

clean_numeric_value(v) ==
    IF IsNull(v) THEN None
    ELSE IF v.t \in {"int", "float"} THEN ToFloat(v)
    ELSE IF v.t = "str" THEN
        LET stripped == Strip(Replace(v.s, "$", <<>>))
            cleaned ==
                IF Contains(stripped, ".") /\ ~Contains(stripped, ",")
                THEN Replace(stripped, ".", <<>>)
                ELSE IF Contains(stripped, ".") /\ Contains(stripped, ",")
                THEN Replace(Replace(stripped, ".", <<>>), ",", <<".">>)
                ELSE IF Contains(stripped, ",")
                THEN Replace(stripped, ",", <<".">>)
                ELSE stripped
            r == PyFloat(cleaned)
        IN IF r = ValueError THEN None ELSE r
    ELSE None

(***************************************************************************)
(* A direct call of clean_numeric_value: the argument is drawn from every  *)
(* text of at most MaxLen characters of Alphabet, the examples of the      *)
(* method's documentation, and the non-text values.                        *)
(***************************************************************************)
Alphabet == {"1", "0", "5", ".", ",", "-", "$", " ", "x"}

Texts(n) == UNION {[1..k -> Alphabet] : k \in 0..n}

Examples ==
    { <<"3", "0", "0", ".", "0", "0", "0">>,
      <<"1", ".", "0", "0", "0">>,
      <<"1", ".", "2", "3", "4", ",", "5", "6">>,
      <<"1", "0", "0", "0", ",", "5", "0">>,
      <<"$", " ", "-", "4", "5", ".", "0", "0", "0", ",", "0", "0">>,
      <<"$", "3", "0", "0", ".", "0", "0", "0", ",", "0", "0">> }

Values ==
    {Str(s) : s \in Texts(MaxLen) \cup Examples}
        \cup {Int64(-45000), Num(-45000, 0), Num(123456, 2), NaN, None}

Pending == [t |-> "pending"]
Unused == [t |-> "unused"]

(***************************************************************************)
(* The category table: a Python dict, which keeps insertion order, as the  *)
(* sequence of its items.                                                  *)
(***************************************************************************)
Item(name, keywords) == [name |-> name, keywords |-> keywords]
Keys(table) == {table[i].name : i \in DOMAIN table}

fallback_categories == <<Item("Uncategorized", <<>>)>>

kNET == <<"N", "E", "T">>
kNetBlank == <<" ", "n", "e", "t", " ">>
kX == <<"x">>

\* the calls of add_category: a name and its keywords
AddInputs ==
    { <<"Uncategorized", <<>>>>, <<"Food", <<>>>>, <<"Fun", <<kNetBlank, kX>>>> }

\* what categories.json may hold before the program first writes it
InitialFiles ==
    { [status |-> "missing", table |-> <<>>],
      [status |-> "malformed", table |-> <<>>],
      [status |-> "valid",
       table |-> <<Item("Uncategorized", <<>>), Item("Food", <<kNET>>)>>] }

\* the ways open("categories.json", "w") can end
SaveOutcomes == {"saved", "open_fails"}

\* save_categories: the file after it, given the table to write, the file
\* before it and the outcome the file system gives it
save_categories(table, file, outcome) ==
    IF outcome = "saved" THEN [status |-> "valid", table |-> table] ELSE file

(***************************************************************************)
(* categorize_transactions: the Category of one description under a table. *)
(***************************************************************************)
\* df["DESCRIPCIÓN"].str.lower().str.strip() on one cell: nan for a non-text cell
CleanDescription(cell) == IF cell.t = "str" THEN Str(Strip(Lower(cell.s))) ELSE NaN

\* set(keyword.lower().strip() for keyword in keywords)
lowered_keywords(keywords) == {Str(Strip(Lower(keywords[i]))) : i \in DOMAIN keywords}

RECURSIVE CategoryOf_FirstWins(_, _, _)
CategoryOf_FirstWins(table, cell, current) ==
    IF table = <<>> THEN current
    ELSE LET category == Head(table).name
             keywords == Head(table).keywords
         IN IF category = "Uncategorized" \/ keywords = <<>>
            THEN CategoryOf_FirstWins(Tail(table), cell, current)
            ELSE IF CleanDescription(cell) \in lowered_keywords(keywords)
            THEN category
            ELSE CategoryOf_FirstWins(Tail(table), cell, current)

\* the loop over self.categories.items(), for one row
RECURSIVE CategoryOf(_, _, _)
CategoryOf(table, cell, current) ==
    IF table = <<>> THEN current
    ELSE LET category == Head(table).name
             keywords == Head(table).keywords
         IN IF category = "Uncategorized" \/ keywords = <<>>
            THEN CategoryOf(Tail(table), cell, current)
            ELSE CategoryOf(Tail(table), cell,
                            IF CleanDescription(cell) \in lowered_keywords(keywords)
                            THEN category ELSE current)

\* whether the loop reaches line 121 at all
UsesStrAccessor(table) ==
    \E i \in DOMAIN table : table[i].name # "Uncategorized" /\ table[i].keywords # <<>>

(***************************************************************************)
(* Frames.  A row is a function from column names to cells; the column     *)
(* DESCRIPCIÓN is written DESCRIPCION.                                     *)
(***************************************************************************)
Frame(columns, rows) == [t |-> "DataFrame", columns |-> columns, rows |-> rows]
Unreadable == [t |-> "unreadable"]

required_columns == <<"VALOR", "DESCRIPCION">>

\* a row of the statement: its VALOR and DESCRIPCION cells, and a DCTO. cell
Row(valor, descripcion) ==
    [c \in {"VALOR", "DESCRIPCION", "DCTO."} |->
        CASE c = "VALOR" -> valor
          [] c = "DESCRIPCION" -> descripcion
          [] OTHER -> Int64(0)]

\* the rows statements are made of: a float debit with a description that
\* matches keywords up to case and blanks, a text that is no number with a
\* description that only contains a keyword, and a zero with a number for
\* description
SampleStatement ==
    << Row(Num(-45000, 0), Str(<<" ", "N", "e", "t", " ">>)),
       Row(Str(<<"x">>), Str(<<"N", "e", "t", "x">>)),
       Row(Int64(0), Int64(7)) >>

SampleRows == Range(SampleStatement)

Restrict(row, columns) == [c \in columns |-> row[c]]

RowsOf(columns) == {Restrict(row, columns) : row \in SampleRows}

\* the columns of a statement export, and column sets that lack a required one
ValidColumnSets == {{"VALOR", "DESCRIPCION", "DCTO."}}
InvalidColumnSets == {{"VALOR", "DCTO."}, {"DESCRIPCION"}, {"DCTO."}}

\* what load_transactions may be given: a file that cannot be read, a frame
\* of at most n rows with the required columns, or the sample statement
\* without some required column
Tables(n) ==
    {Unreadable}
    \cup UNION { {Frame(cs, rows) : rows \in UNION {[1..k -> RowsOf(cs)] : k \in 0..n}}
                 : cs \in ValidColumnSets }
    \cup { Frame(cs, [i \in DOMAIN SampleStatement |-> Restrict(SampleStatement[i], cs)])
           : cs \in InvalidColumnSets }

AllTables == Tables(MaxRows)

\* the dtype pandas gives a column of these cells
Dtype(cells) ==
    IF cells = <<>> \/ \E i \in DOMAIN cells : cells[i].t = "str" THEN "object"
    ELSE IF \A i \in DOMAIN cells : cells[i].t = "int" THEN "int64"
    ELSE "float64"

Column(frame, c) == [i \in DOMAIN frame.rows |-> frame.rows[i][c]]

\* one cell of df['VALOR'].astype(str)
AsTypeStr(cell, dtype) ==
    CASE cell.t = "str" -> cell
      [] cell.t = "int" ->
            Str(IF dtype = "float64" THEN FloatRepr(ToFloat(cell)) ELSE IntRepr(cell.v))
      [] cell.t = "float" -> Str(FloatRepr(cell))
      [] OTHER -> Str(<<"n", "a", "n">>)

\* one line of logger.error / st.error
Error(text, about, cell) == [text |-> text, about |-> about, cell |-> cell]

\* validate_dataframe: the return value
validate_dataframe(columns) ==
    \A i \in DOMAIN required_columns : required_columns[i] \in columns

\* validate_dataframe: what it reports, which is the first missing column
ValidateErrors(columns) ==
    LET missing == {i \in DOMAIN required_columns : required_columns[i] \notin columns}
        first == CHOOSE i \in missing : \A j \in missing : i <= j
    IN IF missing = {} THEN {}
       ELSE {Error("Missing required column", required_columns[first], None)}

Classify_ZeroIsDebit(x) == IF ~IsNull(x) /\ x.m <= 0 THEN "DEBIT" ELSE "CREDIT"

\* lambda x: 'DEBIT' if pd.notnull(x) and x < 0 else 'CREDIT'
Classify(x) == IF ~IsNull(x) /\ IsNegative(x) THEN "DEBIT" ELSE "CREDIT"

Extend(row, columns, new) ==
    [c \in columns \cup DOMAIN new |-> IF c \in DOMAIN new THEN new[c] ELSE row[c]]

\* lines 144-161, on one row
ProcessRow(row, dtype, table) ==
    LET text == AsTypeStr(row["VALOR"], dtype)
        number == clean_numeric_value(text)
    IN Extend(row, DOMAIN row \ {"DCTO."},
              [c \in {"VALOR", "VALOR_NUMERICO", "DEBIT/CREDIT", "Category"} |->
                  CASE c = "VALOR" -> text
                    [] c = "VALOR_NUMERICO" -> number
                    [] c = "DEBIT/CREDIT" -> Classify(number)
                    [] c = "Category" ->
                          CategoryOf(table, row["DESCRIPCION"], "Uncategorized")])

\* the frame of line 170
Numeric(frame, table) ==
    LET dtype == Dtype(Column(frame, "VALOR"))
    IN Frame((frame.columns \ {"DCTO."})
                 \cup {"VALOR_NUMERICO", "DEBIT/CREDIT", "Category"},
             [i \in DOMAIN frame.rows |-> ProcessRow(frame.rows[i], dtype, table)])

\* the display text of an amount: locale.currency for self.df (line 174),
\* f"{x:,.2f}" for the debit and credit frames (lines 187 and 193)
Display(x, style) == IF style = "currency" THEN Currency(x) ELSE Comma2f(x)

\* a frame with VALOR_NUMERICO formatted for display
Formatted(frame, style) ==
    Frame(frame.columns,
          [i \in DOMAIN frame.rows |->
              [frame.rows[i] EXCEPT !["VALOR_NUMERICO"] =
                  IF IsNull(@) THEN None ELSE Str(Display(@, style))]])

IsDebit(row) == row["DEBIT/CREDIT"] = "DEBIT"
IsCredit(row) == row["DEBIT/CREDIT"] = "CREDIT"

process_transactions_DebitsTakeAll(frame) ==
    << Frame(frame.columns, frame.rows),
       Frame(frame.columns, SelectSeq(frame.rows, IsCredit)) >>

process_transactions(frame) ==
    << Frame(frame.columns, SelectSeq(frame.rows, IsDebit)),
       Frame(frame.columns, SelectSeq(frame.rows, IsCredit)) >>

\* the exception load_transactions catches at line 207, or "none"
Raised(table) ==
    IF table = Unreadable THEN "pd.ExcelFile"
    ELSE IF UsesStrAccessor(categories) /\ Dtype(Column(table, "DESCRIPCION")) # "object"
    THEN "AttributeError"
    ELSE IF ~has_locale THEN "locale.Error"
    ELSE "none"

\* the values clean_numeric_value could not convert (line 105)
ValueErrors(frame) ==
    { Error("Error processing value", "VALOR", frame.rows[i]["VALOR"]) :
        i \in {j \in DOMAIN frame.rows : frame.rows[j]["VALOR_NUMERICO"] = None} }

(***************************************************************************)
(* The tracker after __init__, with whatever categories.json the directory *)
(* holds.                                                                  *)
(***************************************************************************)
Init ==
    /\ categories = <<>>
    /\ category_file \in InitialFiles
    /\ df = None
    /\ debits_df = None
    /\ credits_df = None
    /\ df_numeric = None
    /\ op = "__init__"
    /\ arg = None
    /\ ret = None
    /\ errors = {}
    /\ has_locale \in BOOLEAN
    /\ initialized = FALSE
    /\ value = Unused
    /\ parsed = Unused
    /\ pc = "not running"
    /\ temp_file = None
    /\ exists = FALSE
    /\ removals = <<>>
    /\ pending = None

initialize_categories ==
    /\ op' = "initialize_categories"
    /\ arg' = None
    /\ initialized' = TRUE
    /\ \/ /\ category_file.status = "valid"
          /\ categories' = category_file.table
          /\ ret' = category_file.table
          /\ errors' = {}
       \/ /\ category_file.status = "malformed"
          /\ ret' = fallback_categories
          /\ errors' = {Error("Error loading categories", "json.JSONDecodeError", None)}
          /\ UNCHANGED categories
       \/ /\ category_file.status = "missing"
          /\ categories' = fallback_categories
          /\ ret' = fallback_categories
          /\ errors' = {}
    /\ UNCHANGED <<category_file, df, debits_df, credits_df, df_numeric,
                   has_locale, value, parsed>>

add_category_Overwrites(new_category, keywords, outcome) ==
    /\ op' = "add_category"
    /\ arg' = [new_category |-> new_category, keywords |-> keywords, save |-> outcome]
    /\ categories' =
          IF new_category \in Keys(categories)
          THEN [i \in DOMAIN categories |->
                   IF categories[i].name = new_category
                   THEN Item(new_category, keywords) ELSE categories[i]]
          ELSE Append(categories, Item(new_category, keywords))
    /\ category_file' = save_categories(categories', category_file, outcome)
    /\ errors' = IF outcome = "saved" THEN {}
                 ELSE {Error("Error saving categories", outcome, None)}
    /\ ret' = TRUE
    /\ UNCHANGED <<df, debits_df, credits_df, df_numeric, has_locale, initialized,
                   value, parsed>>

\* keywords <<>> stands for both None and []: the code stores keywords or []
add_category(new_category, keywords, outcome) ==
    /\ op' = "add_category"
    /\ \/ /\ new_category \in Keys(categories)
          /\ outcome = "saved"
          /\ arg' = [new_category |-> new_category, keywords |-> keywords,
                     save |-> "not called"]
          /\ ret' = FALSE
          /\ errors' = {}
          /\ UNCHANGED <<categories, category_file>>
       \/ /\ new_category \notin Keys(categories)
          /\ arg' = [new_category |-> new_category, keywords |-> keywords,
                     save |-> outcome]
          /\ categories' = Append(categories, Item(new_category, keywords))
          /\ category_file' = save_categories(categories', category_file, outcome)
          /\ errors' = IF outcome = "saved" THEN {}
                       ELSE {Error("Error saving categories", outcome, None)}
          /\ ret' = TRUE
    /\ UNCHANGED <<df, debits_df, credits_df, df_numeric, has_locale, initialized,
                   value, parsed>>

load_transactions_StoresBeforeLocale(table) ==
    /\ op' = "load_transactions"
    /\ arg' = table
    /\ \/ /\ table # Unreadable
          /\ ~validate_dataframe(table.columns)
          /\ ret' = [success |-> FALSE,
                     message |-> "Invalid file structure. Missing required columns."]
          /\ errors' = ValidateErrors(table.columns)
          /\ UNCHANGED <<df, debits_df, credits_df, df_numeric>>
       \/ /\ IF table = Unreadable THEN TRUE ELSE validate_dataframe(table.columns)
          /\ Raised(table) # "none"
          /\ ret' = [success |-> FALSE, message |-> "Error processing file"]
          /\ errors' = (IF table = Unreadable THEN {}
                        ELSE ValueErrors(Numeric(table, <<>>)))
                           \cup {Error("Error processing file",
                                       Raised(table), None)}
          /\ df' = IF Raised(table) = "locale.Error"
                   THEN Numeric(table, categories) ELSE df
          /\ UNCHANGED <<debits_df, credits_df, df_numeric>>
       \/ /\ table # Unreadable
          /\ validate_dataframe(table.columns)
          /\ Raised(table) = "none"
          /\ \E numeric \in {Numeric(table, categories)} :
             \E split \in {process_transactions(numeric)} :
             \E debits \in {Formatted(split[1], "comma2f")} :
             \E credits \in {Formatted(split[2], "comma2f")} :
                /\ df_numeric' = numeric
                /\ df' = Formatted(numeric, "currency")
                /\ debits_df' = debits
                /\ credits_df' = credits
                /\ ret' = [success |-> TRUE,
                           message |-> "Successfully loaded",
                           data |-> [total |-> Len(numeric.rows),
                                     debits |-> Len(debits.rows),
                                     credits |-> Len(credits.rows)]]
                /\ errors' = ValueErrors(numeric)
    /\ UNCHANGED <<categories, category_file, has_locale, initialized, value, parsed>>

load_transactions(table) ==
    /\ op' = "load_transactions"
    /\ arg' = table
    /\ \/ /\ table # Unreadable
          /\ ~validate_dataframe(table.columns)
          /\ ret' = [success |-> FALSE,
                     message |-> "Invalid file structure. Missing required columns."]
          /\ errors' = ValidateErrors(table.columns)
          /\ UNCHANGED <<df, debits_df, credits_df, df_numeric>>
       \/ /\ IF table = Unreadable THEN TRUE ELSE validate_dataframe(table.columns)
          /\ Raised(table) # "none"
          /\ ret' = [success |-> FALSE, message |-> "Error processing file"]
          /\ errors' = (IF table = Unreadable THEN {}
                        ELSE ValueErrors(Numeric(table, <<>>)))
                           \cup {Error("Error processing file",
                                       Raised(table), None)}
          /\ UNCHANGED <<df, debits_df, credits_df, df_numeric>>
       \/ /\ table # Unreadable
          /\ validate_dataframe(table.columns)
          /\ Raised(table) = "none"
          /\ \E numeric \in {Numeric(table, categories)} :
             \E split \in {process_transactions(numeric)} :
             \E debits \in {Formatted(split[1], "comma2f")} :
             \E credits \in {Formatted(split[2], "comma2f")} :
                /\ df_numeric' = numeric
                /\ df' = Formatted(numeric, "currency")
                /\ debits_df' = debits
                /\ credits_df' = credits
                /\ ret' = [success |-> TRUE,
                           message |-> "Successfully loaded",
                           data |-> [total |-> Len(numeric.rows),
                                     debits |-> Len(debits.rows),
                                     credits |-> Len(credits.rows)]]
                /\ errors' = ValueErrors(numeric)
    /\ UNCHANGED <<categories, category_file, has_locale, initialized, value, parsed>>

\* get_processed_data: the three stored frames, or ValueError raised
get_processed_data ==
    /\ op' = "get_processed_data"
    /\ arg' = None
    /\ ret' = IF df = None THEN ValueError
              ELSE [t |-> "tuple", df |-> df,
                    debits_df |-> debits_df, credits_df |-> credits_df]
    /\ errors' = {}
    /\ UNCHANGED <<categories, category_file, df, debits_df, credits_df, df_numeric,
                   has_locale, initialized, value, parsed>>

\* the calls a client makes on one tracker, in any order
Next ==
    \/ initialize_categories /\ UNCHANGED main_vars
    \/ \E input \in AddInputs, outcome \in SaveOutcomes :
          add_category(input[1], input[2], outcome) /\ UNCHANGED main_vars
    \/ \E table \in AllTables : load_transactions(table) /\ UNCHANGED main_vars
    \/ get_processed_data /\ UNCHANGED main_vars

Spec == Init /\ [][Next]_vars

(***************************************************************************)
(* clean_numeric_value called on its own, once, on any value of Values.    *)
(***************************************************************************)
InitClean ==
    /\ categories = <<>>
    /\ category_file = [status |-> "missing", table |-> <<>>]
    /\ df = None
    /\ debits_df = None
    /\ credits_df = None
    /\ df_numeric = None
    /\ op = "__init__"
    /\ arg = None
    /\ ret = None
    /\ errors = {}
    /\ has_locale = TRUE
    /\ initialized = FALSE
    /\ value \in Values
    /\ parsed = Pending
    /\ pc = "not running"
    /\ temp_file = None
    /\ exists = FALSE
    /\ removals = <<>>
    /\ pending = None

CallClean ==
    /\ parsed = Pending
    /\ parsed' = clean_numeric_value(value)
    /\ op' = "clean_numeric_value"
    /\ UNCHANGED <<categories, category_file, df, debits_df, credits_df,
                   df_numeric, arg, ret, errors, has_locale, initialized, value,
                   main_vars>>

NextClean == CallClean

SpecClean == InitClean /\ [][NextClean]_vars

(***************************************************************************)
(* categorize_transactions called on its own, again and again, on a frame  *)
(* under a table that does not change.                                     *)
(***************************************************************************)
AttributeError == [t |-> "AttributeError"]

categorize_transactions_SkipsCategorized(frame, table) ==
    Frame(frame.columns \cup {"Category"},
          [i \in DOMAIN frame.rows |->
              Extend(frame.rows[i], frame.columns,
                     [c \in {"Category"} |->
                         IF "Category" \in frame.columns
                               /\ frame.rows[i]["Category"] # "Uncategorized"
                         THEN "Uncategorized"
                         ELSE CategoryOf(table, frame.rows[i]["DESCRIPCION"],
                                         "Uncategorized")])])

\* the frame categorize_transactions leaves: line 111 resets the column, the
\* loop then assigns; when line 121 raises, the reset column is what stays
categorize_transactions(frame, table) ==
    Frame(frame.columns \cup {"Category"},
          [i \in DOMAIN frame.rows |->
              Extend(frame.rows[i], frame.columns,
                     [c \in {"Category"} |->
                         CategoryOf(table, frame.rows[i]["DESCRIPCION"],
                                    "Uncategorized")])])

\* the tables self.categories can hold: what __init__ and initialize_categories
\* leave, and those with one category added
CategoryTables ==
    LET starts == {<<>>, fallback_categories} \cup {f.table : f \in InitialFiles}
    IN starts \cup UNION { {Append(t, Item(a[1], a[2])) :
                                a \in {b \in AddInputs : b[1] \notin Keys(t)}} :
                             t \in starts }

InitCategorize ==
    /\ categories \in CategoryTables
    /\ category_file = [status |-> "missing", table |-> <<>>]
    /\ df \in {t \in AllTables :
                  IF t = Unreadable THEN FALSE ELSE validate_dataframe(t.columns)}
    /\ debits_df = None
    /\ credits_df = None
    /\ df_numeric = None
    /\ op = "__init__"
    /\ arg = None
    /\ ret = None
    /\ errors = {}
    /\ has_locale = TRUE
    /\ initialized = TRUE
    /\ value = Unused
    /\ parsed = Unused
    /\ pc = "not running"
    /\ temp_file = None
    /\ exists = FALSE
    /\ removals = <<>>
    /\ pending = None

\* df = self.categorize_transactions(df), on the frame the caller holds
CallCategorize ==
    /\ op' = "categorize_transactions"
    /\ arg' = df
    /\ df' = categorize_transactions(df, categories)
    /\ ret' = IF UsesStrAccessor(categories)
                    /\ Dtype(Column(df, "DESCRIPCION")) # "object"
              THEN AttributeError ELSE df'
    /\ errors' = {}
    /\ UNCHANGED <<categories, category_file, debits_df, credits_df, df_numeric,
                   has_locale, initialized, value, parsed, main_vars>>

NextCategorize == CallCategorize

SpecCategorize == InitCategorize /\ [][NextCategorize]_vars

(***************************************************************************)
(* One run of main() (src/main.py), from the tracker it has just built to  *)
(* the end of its finally block.  pc names the call the run is about to    *)
(* make.                                                                   *)
(***************************************************************************)
TempName == [t |-> "path"]
RerunException == [t |-> "RerunException"]

\* how NamedTemporaryFile and the write of the upload can end
TempOutcomes == {"written", "no file", "write fails"}

\* how os.remove(temp_file) can end
RemoveOutcomes == {"removed", "PermissionError", "OSError"}

\* what the form of render_settings_tab submits: a name, and the non-blank
\* lines of the text area, stripped
FormInputs ==
    { <<"Food", <<kNET>>>>, <<"Fun", <<Strip(kNetBlank), kX>>>> }

\* where the run goes after the finally block
Leave == IF pending = None THEN "done" ELSE "st.rerun"

InitMain ==
    /\ categories = <<>>
    /\ category_file \in InitialFiles
    /\ df = None
    /\ debits_df = None
    /\ credits_df = None
    /\ df_numeric = None
    /\ op = "__init__"
    /\ arg = None
    /\ ret = None
    /\ errors = {}
    /\ has_locale \in BOOLEAN
    /\ initialized = FALSE
    /\ value = Unused
    /\ parsed = Unused
    /\ pc = "initialize_categories"
    /\ temp_file = None
    /\ exists = FALSE
    /\ removals = <<>>
    /\ pending = None

main_initialize_categories ==
    /\ pc = "initialize_categories"
    /\ initialize_categories
    /\ \E uploaded \in BOOLEAN :
          pc' = IF uploaded THEN "NamedTemporaryFile" ELSE "done"
    /\ UNCHANGED <<temp_file, exists, removals, pending>>

main_NamedTemporaryFile ==
    /\ pc = "NamedTemporaryFile"
    /\ \E outcome \in TempOutcomes :
          /\ temp_file' = IF outcome = "no file" THEN None ELSE TempName
          /\ exists' = (outcome # "no file")
          /\ pc' = IF outcome = "written" THEN "load_transactions" ELSE "except"
    /\ UNCHANGED <<tracker_vars, errors, removals, pending>>

main_load_transactions ==
    /\ pc = "load_transactions"
    /\ \E table \in AllTables : load_transactions(table)
    /\ pc' = IF ret'.success THEN "get_processed_data" ELSE "finally"
    /\ UNCHANGED <<temp_file, exists, removals, pending>>

main_get_processed_data ==
    /\ pc = "get_processed_data"
    /\ get_processed_data
    /\ \E outcome \in {"rendered", "raises"} :
          pc' = IF ret' # ValueError /\ outcome = "rendered"
                THEN "render_settings_tab" ELSE "except"
    /\ UNCHANGED <<temp_file, exists, removals, pending>>

main_render_settings_tab ==
    /\ pc = "render_settings_tab"
    /\ pc' = "finally"
    /\ \/ UNCHANGED <<tracker_vars, errors, pending>>
       \/ \E input \in FormInputs, outcome \in SaveOutcomes :
             /\ add_category(input[1], input[2], outcome)
             /\ pending' = IF ret' THEN RerunException ELSE pending
    /\ UNCHANGED <<temp_file, exists, removals>>

main_except ==
    /\ pc = "except"
    /\ errors' = errors \cup {Error("Error in main", "Exception", None)}
    /\ pc' = "finally"
    /\ UNCHANGED <<tracker_vars, temp_file, exists, removals, pending>>

main_finally_NoRetry ==
    /\ pc = "finally"
    /\ IF temp_file = None \/ ~exists
       THEN /\ pc' = Leave
            /\ UNCHANGED <<errors, exists, removals>>
       ELSE \E outcome \in RemoveOutcomes :
               /\ removals' = Append(removals, outcome)
               /\ exists' = (outcome # "removed")
               /\ errors' = IF outcome = "removed" THEN errors
                            ELSE errors \cup {Error("Could not remove temp file",
                                                    outcome, None)}
               /\ pc' = Leave
    /\ UNCHANGED <<tracker_vars, temp_file, pending>>

main_finally ==
    /\ pc = "finally"
    /\ IF temp_file = None \/ ~exists
       THEN /\ pc' = Leave
            /\ UNCHANGED <<errors, exists, removals>>
       ELSE \E outcome \in RemoveOutcomes :
               /\ removals' = Append(removals, outcome)
               /\ exists' = (outcome # "removed")
               /\ errors' = IF outcome = "OSError"
                            THEN errors \cup {Error("Error removing temp file",
                                                    outcome, None)}
                            ELSE errors
               /\ pc' = IF outcome = "PermissionError" THEN "except PermissionError"
                        ELSE Leave
    /\ UNCHANGED <<tracker_vars, temp_file, pending>>

main_except_PermissionError ==
    /\ pc = "except PermissionError"
    /\ \E outcome \in RemoveOutcomes :
          /\ removals' = Append(removals, outcome)
          /\ exists' = (outcome # "removed")
          /\ errors' = IF outcome = "removed" THEN errors
                       ELSE errors \cup {Error("Could not remove temp file",
                                               outcome, None)}
    /\ pc' = Leave
    /\ UNCHANGED <<tracker_vars, temp_file, pending>>

NextMain ==
    \/ main_initialize_categories
    \/ main_NamedTemporaryFile
    \/ main_load_transactions
    \/ main_get_processed_data
    \/ main_render_settings_tab
    \/ main_except
    \/ main_finally
    \/ main_except_PermissionError

\* main is straight-line code: whatever step is next is taken
SpecMain == InitMain /\ [][NextMain]_vars /\ WF_vars(NextMain)

(***************************************************************************)
(* The claims.                                                             *)
(***************************************************************************)

\* C1: in every ingested table, a row's flow is DEBIT exactly when its parsed
\* amount is not null and is below zero; zero and null amounts are CREDIT.
C1_DebitIffNegative ==
    df # None =>
        \A i \in DOMAIN df.rows :
            LET amount == df_numeric.rows[i]["VALOR_NUMERICO"]
                flow == df.rows[i]["DEBIT/CREDIT"]
            IN /\ flow \in {"DEBIT", "CREDIT"}
               /\ flow = "DEBIT" <=> (amount.t = "float" /\ amount.m < 0)

\* C1: an ingested table with a DEBIT row and a CREDIT row whose amount is
\* zero or null
C1_Witness ==
    /\ df # None
    /\ \E i, j \in DOMAIN df.rows :
          /\ df.rows[i]["DEBIT/CREDIT"] = "DEBIT"
          /\ df.rows[j]["DEBIT/CREDIT"] = "CREDIT"
          /\ df_numeric.rows[j]["VALOR_NUMERICO"] \in {Num(0, 0), None}

\* C2: the amount load_transactions stores for a row is what the parser's
\* contract gives on the row's raw VALOR cell (a number stays that number).
C2_StoredAmountIsContract ==
    (op = "load_transactions" /\ ret.success) =>
        \A i \in DOMAIN arg.rows :
            LET stored == df_numeric.rows[i]["VALOR_NUMERICO"]
                contract == clean_numeric_value(arg.rows[i]["VALOR"])
            IN (IsNull(stored) /\ IsNull(contract)) \/ stored = contract

\* C3: on text, clean_numeric_value drops '$' and the blanks around, then
\* drops every '.' when there is no ',', drops '.' and reads ',' as the
\* point when there are both, reads ',' as the point when there is only
\* ',', and parses what is left; the documented examples come out as stated.
C3_SeparatorPolicy ==
    (parsed # Pending /\ value.t = "str") =>
        LET NotDollar(c) == c # "$"
            NotPoint(c) == c # "."
            CommaToPoint(t) == [k \in DOMAIN t |-> IF t[k] = "," THEN "." ELSE t[k]]
            bare == Strip(SelectSeq(value.s, NotDollar))
            points == \E k \in DOMAIN bare : bare[k] = "."
            commas == \E k \in DOMAIN bare : bare[k] = ","
            text == IF points /\ ~commas THEN SelectSeq(bare, NotPoint)
                    ELSE IF points /\ commas THEN CommaToPoint(SelectSeq(bare, NotPoint))
                    ELSE IF commas THEN CommaToPoint(bare)
                    ELSE bare
            number == PyFloat(text)
        IN /\ parsed = IF number = ValueError THEN None ELSE number
           /\ (points /\ ~commas /\ parsed \notin {None, NaN}) => parsed.e = 0
           /\ value.s = <<"3", "0", "0", ".", "0", "0", "0">> => parsed = Num(300000, 0)
           /\ value.s = <<"1", ".", "0", "0", "0">> => parsed = Num(1000, 0)
           /\ value.s = <<"1", ".", "2", "3", "4", ",", "5", "6">>
                  => parsed = Num(123456, 2)
           /\ value.s = <<"1", "0", "0", "0", ",", "5", "0">> => parsed = Num(100050, 2)
           /\ value.s = <<"$", " ", "-", "4", "5", ".", "0", "0", "0", ",", "0", "0">>
                  => parsed = Num(-45000, 0)

\* C3: the call has returned 1234.56 for "1.234,56"
C3_Witness ==
    /\ value = Str(<<"1", ".", "2", "3", "4", ",", "5", "6">>)
    /\ parsed = Num(123456, 2)

\* C4: after an ingestion, the debit rows and the credit rows add up to the
\* rows of the full set, and the reported counts add up to the reported total.
C4_SplitIsPartition ==
    /\ df # None => Len(debits_df.rows) + Len(credits_df.rows) = Len(df.rows)
    /\ (op = "load_transactions" /\ ret.success) =>
          /\ ret.data.debits + ret.data.credits = ret.data.total
          /\ ret.data.total = Len(df.rows)
          /\ ret.data.debits = Len(debits_df.rows)
          /\ ret.data.credits = Len(credits_df.rows)

\* C4: an ingestion that reported one debit and one credit
C4_Witness ==
    /\ op = "load_transactions"
    /\ ret.success
    /\ ret.data.debits = 1
    /\ ret.data.credits = 1

\* C5: after initialize_categories and any add_category calls, every row of an
\* ingestion has a category that is a key of the category table, and that is
\* "Uncategorized" when no keyword set contains the row's description.
C5_CategoryIsKey ==
    (initialized /\ op = "load_transactions" /\ ret.success) =>
        \A i \in DOMAIN df.rows :
            LET cell == arg.rows[i]["DESCRIPCION"]
                matched ==
                    \E k \in DOMAIN categories :
                        /\ cell.t = "str"
                        /\ \E j \in DOMAIN categories[k].keywords :
                              Strip(Lower(categories[k].keywords[j])) = Strip(Lower(cell.s))
            IN /\ df.rows[i]["Category"] \in Keys(categories)
               /\ ~matched => df.rows[i]["Category"] = "Uncategorized"

\* C6: each row gets the last category of the table, "Uncategorized" and
\* categories without keywords left out, one of whose keywords equals the
\* row's description once both are lowercased and trimmed; a row that
\* matches none gets "Uncategorized".
C6_LastMatchWins ==
    (op = "load_transactions" /\ ret.success) =>
        \A i \in DOMAIN df.rows :
            LET cell == arg.rows[i]["DESCRIPCION"]
                matching ==
                    { k \in DOMAIN categories :
                        /\ categories[k].name # "Uncategorized"
                        /\ cell.t = "str"
                        /\ \E j \in DOMAIN categories[k].keywords :
                              Strip(Lower(categories[k].keywords[j])) = Strip(Lower(cell.s)) }
                last == CHOOSE k \in matching : \A l \in matching : l <= k
            IN df.rows[i]["Category"] =
                  IF matching = {} THEN "Uncategorized" ELSE categories[last].name

\* C6: two categories in a row match " Net " and the later one has it, while
\* "Netx", which only contains the keyword "x", is left uncategorized
C6_Witness ==
    /\ op = "load_transactions"
    /\ ret.success
    /\ \E k \in DOMAIN categories :
          /\ k + 1 \in DOMAIN categories
          /\ categories[k].keywords = <<kNET>>
          /\ categories[k + 1].keywords = <<kNetBlank, kX>>
          /\ \E i, j \in DOMAIN df.rows :
                /\ arg.rows[i]["DESCRIPCION"] = Str(<<" ", "N", "e", "t", " ">>)
                /\ df.rows[i]["Category"] = categories[k + 1].name
                /\ arg.rows[j]["DESCRIPCION"] = Str(<<"N", "e", "t", "x">>)
                /\ df.rows[j]["Category"] = "Uncategorized"

\* C7: once initialize_categories has run, whatever the file was and whatever
\* add_category calls followed, the table has the key "Uncategorized"; right
\* after initialize_categories on a missing or malformed file the table is
\* exactly {"Uncategorized": []}.
C7_UncategorizedAlwaysThere ==
    initialized =>
        /\ "Uncategorized" \in Keys(categories)
        /\ (op = "initialize_categories" /\ category_file.status # "valid")
              => categories = fallback_categories

\* C8: add_category with a name that is already a key returns False and
\* leaves the table and the store as they were.
C8_DuplicateAddChangesNothing ==
    [][ (op' = "add_category" /\ arg'.new_category \in Keys(categories))
            => /\ ret' = FALSE
               /\ categories' = categories
               /\ category_file' = category_file ]_vars

\* C8: add_category has just refused a name the table holds
C8_Witness ==
    /\ op = "add_category"
    /\ ret = FALSE
    /\ arg.new_category \in Keys(categories)

\* C9: when add_category returns True the store holds the in-memory table (so
\* that a later load has the new category); a failed save is not a success.
C9_SuccessMeansPersisted ==
    (op = "add_category" /\ ret = TRUE) =>
        /\ category_file = [status |-> "valid", table |-> categories]
        /\ arg.save = "saved"

\* C10: without VALOR, DESCRIPCION or both, ingestion fails before any row is
\* processed, gives no outcome, and names every missing required column.
C10_EveryMissingColumnNamed ==
    LET missing == {c \in Range(required_columns) : c \notin arg.columns}
    IN (op = "load_transactions" /\ arg # Unreadable /\ missing # {}) =>
          /\ ~ret.success
          /\ "data" \notin DOMAIN ret
          /\ \A e \in errors : e.text # "Error processing value"
          /\ {e.about : e \in {f \in errors : f.text = "Missing required column"}}
                = missing

\* C11: load_transactions succeeds on every readable table that has both VALOR
\* and DESCRIPCION, whatever its cells, the category table and the host's
\* locales are.
C11_ValidSchemaSucceeds ==
    (op = "load_transactions" /\ arg # Unreadable /\ validate_dataframe(arg.columns))
        => ret.success

\* C12: a row whose VALOR is text that is no number is kept by a successful
\* ingestion with a null amount, flow CREDIT and, when no keyword matches,
\* category "Uncategorized", and the outcome returned to the caller lists it
\* among its parse failures.
C12_UnparseableRowKeptAndListed ==
    (op = "load_transactions" /\ arg # Unreadable /\ validate_dataframe(arg.columns)) =>
        \A i \in DOMAIN arg.rows :
            LET cell == arg.rows[i]["VALOR"]
            IN (cell.t = "str" /\ clean_numeric_value(cell) = None) =>
                  /\ ret.success
                  /\ Len(df.rows) = Len(arg.rows)
                  /\ df_numeric.rows[i]["VALOR_NUMERICO"] = None
                  /\ df.rows[i]["DEBIT/CREDIT"] = "CREDIT"
                  /\ CleanDescription(arg.rows[i]["DESCRIPCION"]) \notin
                        UNION {lowered_keywords(categories[k].keywords) :
                                  k \in DOMAIN categories}
                        => df.rows[i]["Category"] = "Uncategorized"
                  /\ "diagnostics" \in DOMAIN ret
                  /\ arg.rows[i] \in ret.diagnostics

\* C13: in the full set a successful ingestion stores, which is the one
\* get_processed_data hands out, the amount of every row is the parsed number
\* (or null), never display text, and every other column of the input but
\* DCTO. holds the input's value.
C13_StoredAmountIsNumeric ==
    (op = "load_transactions" /\ ret.success) =>
        \A i \in DOMAIN arg.rows :
            /\ df.rows[i]["VALOR_NUMERICO"].t \in {"float", "nan", "None"}
            /\ df.rows[i]["VALOR_NUMERICO"] = df_numeric.rows[i]["VALOR_NUMERICO"]
            /\ \A c \in arg.columns \ {"VALOR", "DCTO."} :
                  df.rows[i][c] = arg.rows[i][c]

\* C14: categorize_transactions run again on a frame it has categorized, under
\* the same table, gives every row the category it had.
C14_CategorizeIdempotent ==
    (op = "categorize_transactions" /\ "Category" \in arg.columns) =>
        /\ Len(df.rows) = Len(arg.rows)
        /\ \A i \in DOMAIN arg.rows :
              df.rows[i]["Category"] = arg.rows[i]["Category"]

\* C14: a second run over a frame in which a row had matched a keyword
C14_Witness ==
    /\ op = "categorize_transactions"
    /\ "Category" \in arg.columns
    /\ \E i \in DOMAIN arg.rows : arg.rows[i]["Category"] # "Uncategorized"

\* C15: once main has a temporary file, whether ingestion succeeds, returns a
\* failure or something raises, os.remove is eventually called on it; after a
\* PermissionError it is called exactly once more, and no more in any other
\* case; a second failure is logged and the run ends as it would have ended
\* anyway, no exception of the clean-up leaving main.
C15_TempFileIsCleanedUp ==
    LET over == pc \in {"done", "st.rerun"}
    IN /\ [](temp_file # None => <>(removals # <<>>))
       /\ [](/\ Len(removals) <= 2
             /\ pc \in {"not running", "initialize_categories", "NamedTemporaryFile",
                        "load_transactions", "get_processed_data",
                        "render_settings_tab", "except", "finally",
                        "except PermissionError", "done", "st.rerun"}
             /\ pc = "st.rerun" => pending = RerunException
             /\ (over /\ temp_file # None) =>
                   /\ removals # <<>>
                   /\ (removals[1] = "PermissionError") <=> (Len(removals) = 2)
                   /\ (Len(removals) = 2 /\ removals[2] # "removed") =>
                         Error("Could not remove temp file", removals[2], None)
                            \in errors)

\* C15: a run whose two attempts at deleting the file both met a
\* PermissionError, after an ingestion that returned a failure
C15_Witness ==
    /\ pc = "done"
    /\ removals = <<"PermissionError", "PermissionError">>
    /\ op = "load_transactions"
    /\ ~ret.success
    /\ exists

\* C16: a load_transactions call that returns success=False leaves self.df,
\* self.debits_df and self.credits_df as they were; the three are set only
\* by a successful load, and then all at once and in agreement with each
\* other; get_processed_data raises ValueError exactly while no load has
\* succeeded, and otherwise returns the three stored sets.
C16_FailedLoadKeepsStoredSets ==
    [][ /\ (op' = "load_transactions" /\ ~ret'.success)
              => UNCHANGED <<df, debits_df, credits_df>>
        /\ <<df, debits_df, credits_df>>' # <<df, debits_df, credits_df>>
              => (op' = "load_transactions" /\ ret'.success)
        /\ df' = None => (debits_df' = None /\ credits_df' = None)
        /\ df' # None =>
              /\ df' = Formatted(df_numeric', "currency")
              /\ debits_df' = Formatted(process_transactions(df_numeric')[1], "comma2f")
              /\ credits_df' = Formatted(process_transactions(df_numeric')[2], "comma2f")
        /\ op' = "get_processed_data" =>
              ret' = IF df = None THEN ValueError
                     ELSE [t |-> "tuple", df |-> df,
                           debits_df |-> debits_df, credits_df |-> credits_df] ]_vars

\* C16: a load has just failed on a tracker that holds the sets of an earlier,
\* successful load of another table
C16_Witness ==
    /\ op = "load_transactions"
    /\ ~ret.success
    /\ df # None
    /\ arg # Unreadable
    /\ Len(arg.rows) # Len(df.rows)

=============================================================================
